---- MODULE Spec2Model ----
(***************************************************************************)
(* A model of rcy/evoke: the in-memory event store (simplestore.go), the   *)
(* sqlite event store (fileStore), the event registry (registry.go) and    *)
(* the sqlite Service with synchronous handlers and sagas (evoke.go).      *)
(***************************************************************************)
EXTENDS Integers, Sequences, FiniteSets, TLC

(***************************************************************************)
(* Bounds of the model.                                                    *)
(***************************************************************************)
\* longest batch of events handed to one Record call
MaxBatch == 2
\* number of Record and LoadStream calls started in one behaviour
MaxCalls == 2
\* number of publishers registered with RegisterPublisher
MaxPublishers == 1

\* goroutines calling into one store
Callers == {"c1", "c2"}
\* aggregate ids (uuid.UUID values)
Aggregates == {"A", "B"}
\* sync.Mutex: the zero value is unlocked
Unlocked == "unlocked"

(***************************************************************************)
(* Events.  An event is a Go struct value; the model's shapes have a field *)
(* ID that json always emits and a field Note tagged omitempty, which json *)
(* leaves out when it is the empty string.  The shape Chan holds a channel *)
(* and json.Marshal rejects it.  The shape Ghost is never registered.      *)
(***************************************************************************)
Fields == {"ID", "Note"}
ZeroValue == [ID |-> "", Note |-> ""]
Ev(t, id, note) == [type |-> t, ID |-> id, Note |-> note]
OrderCreated == Ev("OrderCreated", "a", "")
OrderShipped == Ev("OrderShipped", "a", "x")
Ghost == Ev("Ghost", "a", "")
Chan == Ev("Chan", "a", "")
\* the events callers hand to a store: the in-memory store neither encodes
\* nor decodes, so every event is alike to it
StoreEvents(b) ==
  IF b = "simple" THEN {OrderCreated, OrderShipped}
  ELSE {OrderCreated, Ghost, Chan}

\* TypeName: the name of the (pointed-to) struct type
TypeName(e) == e.type

\* json.Marshal fails on a value that holds a channel or a func
MarshalFails(e) == e.type = "Chan"

\* json.Marshal: the set of emitted (field, value) pairs; omitempty drops an
\* empty Note
Marshal(e) ==
  {<<"ID", e.ID>>} \cup (IF e.Note = "" THEN {} ELSE {<<"Note", e.Note>>})

\* json.Unmarshal(data, ptr): a field present in data is overwritten, a field
\* absent from data keeps the value the destination already holds
JsonUnmarshalInto(data, inst) ==
  [f \in Fields |->
     IF \E pr \in data : pr[1] = f
     THEN (CHOOSE pr \in data : pr[1] = f)[2]
     ELSE inst[f]]

(***************************************************************************)
(* EventRegistry: type name -> constructor.  RegisterEvent captures the    *)
(* value it is given; the constructor returns that same value every time,  *)
(* so a pointer registration shares one instance over all decodes.         *)
(***************************************************************************)
TypeNames == {"OrderCreated", "OrderShipped", "Ghost", "Chan"}
NotRegistered == [registered |-> FALSE, ptr |-> FALSE, inst |-> ZeroValue]

\* registerEvent(TypeName(ctor), func() Event { return ctor })
RegisterEvent(reg, t, isPtr, v) ==
  [reg EXCEPT ![t] = [registered |-> TRUE, ptr |-> isPtr, inst |-> v]]

\* UnmarshalEvent(eventType, data): the error, the event returned and the
\* registry afterwards (the shared instance behind a pointer is written)
UnmarshalEvent(reg, t, data) ==
  IF ~reg[t].registered
  THEN [err |-> "event not registered", event |-> Ev(t, "", ""), registry |-> reg]
  ELSE IF ~reg[t].ptr
  THEN [err |-> "json: Unmarshal(non-pointer)", event |-> Ev(t, "", ""), registry |-> reg]
  ELSE LET inst == JsonUnmarshalInto(data, reg[t].inst)
       IN  [err |-> "",
            event |-> Ev(t, inst.ID, inst.Note),
            registry |-> [reg EXCEPT ![t].inst = inst]]

\* the registry of a store after the application's bootstrap registration
BootRegistry ==
  [t \in TypeNames |->
     IF t \in {"OrderCreated", "OrderShipped"}
     THEN [registered |-> TRUE, ptr |-> TRUE, inst |-> ZeroValue]
     ELSE NotRegistered]

(***************************************************************************)
(* State.                                                                  *)
(***************************************************************************)
VARIABLES
  backend,          \* which EventStore the callers share: "simple" or "file"
  events,           \* simpleStore.events
  streams,          \* simpleStore.streams
  nextSequence,     \* simpleStore.nextSequence
  table,            \* fileStore: the rows of the events table, in rowid order
  sqlite_sequence,  \* fileStore: the AUTOINCREMENT counter of the events table
  registry,         \* fileStore.EventRegistry
  mu,               \* the store's mutex: Unlocked or the caller holding it
  publishers,       \* number of registered publishers (they are 1..publishers)
  callers,          \* each caller's position in Record and its locals
  result,           \* what each caller's last Record returned
  loaded,           \* what each caller's last LoadStream returned
  delivered,        \* the Publish calls made so far, in order
  writer,           \* history: the call that wrote each row of the log
  calls             \* history: number of calls started

storeVars ==
  <<backend, events, streams, nextSequence, table, sqlite_sequence, registry,
    mu, publishers, callers, result, loaded, delivered, writer, calls>>

VARIABLES
  db_events,        \* the committed rows of the events table, in event_id order
  db_events_seq,    \* the committed AUTOINCREMENT counter of events
  tx,               \* the rows written by the open transaction, not yet committed
  db_conn,          \* the pool's one connection: NoConn or the goroutine using it
  saga_instances,   \* the rows of the saga_instances table, in id order
  handlers,         \* Service.handlers: event type -> handlers, in registration order
  xhandlers,        \* Service.xhandlers: event type -> saga handlers
  svc,              \* each goroutine's position in Insert or Replay and its locals
  svcResult,        \* what each goroutine's last Insert or Replay returned
  syncCalls,        \* history: the calls of synchronous handlers, in order
  sagaRuns,         \* history: the calls of saga handlers, by saga instance id
  svcCalls          \* history: number of Insert and Replay calls started

svcVars ==
  <<db_events, db_events_seq, tx, db_conn, saga_instances, handlers, xhandlers,
    svc, svcResult, syncCalls, sagaRuns, svcCalls>>

VARIABLES
  er,               \* an EventRegistry on its own: type name -> constructor
  decoded,          \* history: the UnmarshalEvent calls made on er, in order
  registrations     \* history: number of RegisterEvent calls made on er

regVars == <<er, decoded, registrations>>

VARIABLES
  cmdHandlers,      \* simpleCommandBus.handlers: command type -> handler, 0 if none
  registered,       \* history: the RegisterHandler calls, in order
  sends,            \* history: the Send calls, in order
  handled,          \* history: the CommandHandler.Handle calls made by Send
  crashed,          \* an unrecovered panic has ended the program
  subscribers,      \* simpleEventBus.subscribers: event type -> handlers
  subscribed,       \* history: the Subscribe calls, in order
  pub,              \* the position of the goroutine inside Publish, and its locals
  publishes,        \* history: the Publish calls, in order
  busCalls          \* history: the EventHandler.Handle calls made by Publish

busVars ==
  <<cmdHandlers, registered, sends, handled, crashed, subscribers, subscribed,
    pub, publishes, busCalls>>

VARIABLES
  handling,         \* each caller's position in AggregateHandler.Handle, its locals
  handleResult,     \* what each caller's last Handle returned
  origin,           \* history: the Record calls made by Handle, and what was folded
  commands          \* history: number of Handle calls started

ahVars == <<handling, handleResult, origin, commands>>

VARIABLES
  replaying,        \* each caller's position in ReplayFrom / TailFrom, its locals
  replays           \* history: the ReplayFrom / TailFrom calls, in order

rpVars == <<replaying, replays>>

\* the variables an action of the stores, of the Service, or of the lone
\* registry, leaves alone
notStore == <<svcVars, regVars, busVars, ahVars, rpVars>>
notSvc == <<storeVars, regVars, busVars, ahVars, rpVars>>
notReg == <<storeVars, svcVars, busVars, ahVars, rpVars>>
notBus == <<storeVars, svcVars, regVars, ahVars, rpVars>>
\* Handle works on the store through LoadStream and Record
notHandle == <<svcVars, regVars, busVars, rpVars>>
\* ReplayFrom and TailFrom are methods of the stores
notReplay == <<svcVars, regVars, busVars, ahVars>>

vars == <<storeVars, svcVars, regVars, busVars, ahVars, rpVars>>

\* the log of the chosen backend, in insertion order
Log == IF backend = "simple" THEN events ELSE table

Batches == UNION {[1..n -> StoreEvents(backend)] : n \in 0..MaxBatch}

IdleCaller ==
  [pc |-> "idle", call |-> 0, agg |-> "A", evs |-> <<>>, i |-> 1, out |-> <<>>,
   pi |-> 1, ri |-> 1]
NoResult == [call |-> 0, agg |-> "A", evs |-> <<>>, err |-> "", k |-> 0]
NoLoad == [agg |-> "A", err |-> "", recs |-> <<>>, at |-> 0, done |-> FALSE]

\* NewSimpleStore / NewFileStore, and the registrations of the bootstrap
StoreStart ==
  /\ events = <<>>
  /\ streams = [a \in Aggregates |-> <<>>]
  /\ nextSequence = 1
  /\ table = <<>>
  /\ sqlite_sequence = 0
  /\ registry = BootRegistry
  /\ mu = Unlocked
  /\ publishers = 0
  /\ callers = [p \in Callers |-> IdleCaller]
  /\ result = [p \in Callers |-> NoResult]
  /\ loaded = [p \in Callers |-> NoLoad]
  /\ delivered = <<>>
  /\ writer = <<>>
  /\ calls = 0

(***************************************************************************)
(* RegisterPublisher appends to the publishers slice without the mutex; it *)
(* is called at start-up, before any caller uses the store.                *)
(***************************************************************************)
RegisterPublisher ==
  /\ calls = 0
  /\ publishers < MaxPublishers
  /\ publishers' = publishers + 1
  /\ UNCHANGED <<backend, events, streams, nextSequence, table, sqlite_sequence,
                 registry, mu, callers, result, loaded, delivered, writer,
                 calls>>
  /\ UNCHANGED notStore

\* a caller enters Record(aggregateID, evs)
Record_Call(p) ==
  /\ callers[p].pc = "idle"
  /\ calls < MaxCalls
  /\ \E a \in Aggregates, evs \in Batches :
       callers' = [callers EXCEPT
                     ![p] = [IdleCaller EXCEPT !.pc = "lock", !.call = calls + 1,
                                               !.agg = a, !.evs = evs]]
  /\ calls' = calls + 1
  /\ UNCHANGED <<backend, events, streams, nextSequence, table, sqlite_sequence,
                 registry, mu, publishers, result, loaded, delivered, writer>>
  /\ UNCHANGED notStore

\* a mutex that excludes no one
MutexNeverHeld(m) == TRUE
\* s.mu.Lock() returns only while no one holds the mutex
MutexFree(m) == m = Unlocked

\* an emptiness check that never fires
NoEventsNever(evs) == FALSE
\* len(evs) == 0
NoEvents(evs) == Len(evs) = 0

\* an insert that lands although the statement reports an error
InsertRowDespiteError(tbl, row, dbok) == Append(tbl, row)
\* s.db.Get(&row, `insert into events(...) values(?,?,?) returning *`): the row
\* is in the table exactly when the statement succeeds
InsertRow(tbl, row, dbok) == IF dbok THEN Append(tbl, row) ELSE tbl

\* the caller's Record returns err; k is the index of the event it failed at
Return(p, err, k) ==
  /\ result' = [result EXCEPT
                  ![p] = [call |-> callers[p].call, agg |-> callers[p].agg,
                          evs |-> callers[p].evs, err |-> err, k |-> k]]
  /\ callers' = [callers EXCEPT ![p] = [IdleCaller EXCEPT !.call = callers[p].call]]

\* appendEvents: s.mu.Lock(), then the check for an empty batch
appendEvents_Enter(p) ==
  /\ callers[p].pc = "lock"
  /\ MutexFree(mu)
  /\ IF NoEvents(callers[p].evs)
     THEN /\ Return(p, "no events to append", 0)
          /\ UNCHANGED mu
     ELSE /\ mu' = p
          /\ callers' = [callers EXCEPT ![p].pc = "loop"]
          /\ UNCHANGED result
  /\ UNCHANGED <<backend, events, streams, nextSequence, table, sqlite_sequence,
                 registry, publishers, loaded, delivered, writer, calls>>
  /\ UNCHANGED notStore

\* simpleStore.appendEvents: one iteration of the loop over evs
simpleStore_appendEvent(p) ==
  /\ backend = "simple"
  /\ callers[p].pc = "loop"
  /\ callers[p].i <= Len(callers[p].evs)
  /\ LET c == callers[p]
         rec == [Sequence |-> nextSequence, AggregateID |-> c.agg,
                 Event |-> c.evs[c.i], EventType |-> ""]
     IN  /\ nextSequence' = nextSequence + 1
         /\ events' = Append(events, rec)
         /\ streams' = [streams EXCEPT ![c.agg] = Append(@, rec)]
         /\ callers' = [callers EXCEPT ![p].i = @ + 1, ![p].out = Append(@, rec)]
         /\ writer' = Append(writer, c.call)
  /\ UNCHANGED <<backend, table, sqlite_sequence, registry, mu, publishers,
                 result, loaded, delivered, calls>>
  /\ UNCHANGED notStore

\* fileStore.appendEvents: one iteration of the loop over evs.  The insert
\* is a statement of its own (no transaction); dbok is whether sqlite
\* accepts it.
fileStore_appendEvent(p) ==
  /\ backend = "file"
  /\ callers[p].pc = "loop"
  /\ callers[p].i <= Len(callers[p].evs)
  /\ \E dbok \in BOOLEAN :
       LET c == callers[p]
           e == c.evs[c.i]
           row == [Sequence |-> sqlite_sequence + 1, AggregateID |-> c.agg,
                   EventJSON |-> Marshal(e), EventType |-> TypeName(e)]
           dec == UnmarshalEvent(registry, row.EventType, row.EventJSON)
           rec == [Sequence |-> row.Sequence, AggregateID |-> row.AggregateID,
                   EventType |-> row.EventType, Event |-> dec.event]
       IN  IF MarshalFails(e)
           THEN /\ Return(p, "Marshal", c.i)
                /\ mu' = Unlocked
                /\ UNCHANGED <<table, sqlite_sequence, registry, writer>>
           ELSE /\ table' = InsertRow(table, row, dbok)
                /\ sqlite_sequence' = IF Len(table') > Len(table)
                                      THEN row.Sequence ELSE sqlite_sequence
                /\ writer' = IF Len(table') > Len(table)
                             THEN Append(writer, c.call) ELSE writer
                /\ IF ~dbok
                   THEN /\ Return(p, "insert into events", c.i)
                        /\ mu' = Unlocked
                        /\ UNCHANGED registry
                   ELSE /\ registry' = dec.registry
                        /\ IF dec.err # ""
                           THEN /\ Return(p, "getRecordedEvent", c.i)
                                /\ mu' = Unlocked
                           ELSE /\ callers' = [callers EXCEPT
                                                 ![p].i = @ + 1,
                                                 ![p].out = Append(@, rec)]
                                /\ UNCHANGED <<mu, result>>
  /\ UNCHANGED <<backend, events, streams, nextSequence, publishers, loaded,
                 delivered, calls>>
  /\ UNCHANGED notStore

\* appendEvents returns out; the deferred s.mu.Unlock() runs
appendEvents_Return(p) ==
  /\ callers[p].pc = "loop"
  /\ callers[p].i > Len(callers[p].evs)
  /\ mu' = Unlocked
  /\ callers' = [callers EXCEPT ![p].pc = "publish"]
  /\ UNCHANGED <<backend, events, streams, nextSequence, table, sqlite_sequence,
                 registry, publishers, result, loaded, delivered, writer, calls>>
  /\ UNCHANGED notStore

\* an error check that lets the error of a publisher pass
PublishNeverFailed(ok) == FALSE
\* err := p.Publish(rec, false); if err != nil
PublishFailed(ok) == ~ok

\* Record: one p.Publish(rec, false) of the loops over publishers and recs;
\* ok is whether the publisher returns nil
Record_Publish(p) ==
  /\ callers[p].pc = "publish"
  /\ callers[p].pi <= publishers
  /\ callers[p].ri <= Len(callers[p].out)
  /\ LET c == callers[p]
     IN  \E ok \in BOOLEAN :
           /\ delivered' = Append(delivered,
                                  [publisher |-> c.pi, rec |-> c.out[c.ri],
                                   replay |-> FALSE, call |-> c.call, ok |-> ok])
           /\ IF PublishFailed(ok)
              THEN Return(p, "publish", c.ri)
              ELSE /\ callers' = [callers EXCEPT
                                    ![p].ri = IF c.ri = Len(c.out) THEN 1 ELSE c.ri + 1,
                                    ![p].pi = IF c.ri = Len(c.out) THEN c.pi + 1 ELSE c.pi]
                   /\ UNCHANGED result
  /\ UNCHANGED <<backend, events, streams, nextSequence, table, sqlite_sequence,
                 registry, mu, publishers, loaded, writer, calls>>
  /\ UNCHANGED notStore

\* Record returns nil: every publisher has seen every rec
Record_Return(p) ==
  /\ callers[p].pc = "publish"
  /\ callers[p].pi > publishers \/ Len(callers[p].out) = 0
  /\ Return(p, "", 0)
  /\ UNCHANGED <<backend, events, streams, nextSequence, table, sqlite_sequence,
                 registry, mu, publishers, loaded, delivered, writer, calls>>
  /\ UNCHANGED notStore

(***************************************************************************)
(* LoadStream.                                                             *)
(***************************************************************************)
RECURSIVE OrderBySequence(_)
\* order by sequence asc, of a set of rows
OrderBySequence(rows) ==
  IF rows = {} THEN <<>>
  ELSE LET first == CHOOSE r \in rows : \A q \in rows : r.Sequence <= q.Sequence
       IN  <<first>> \o OrderBySequence(rows \ {first})

Range(s) == {s[n] : n \in 1..Len(s)}

\* the columns of the events table, and the column names sqlx maps the fields
\* of a destination struct to: the db tag, or else the lower-cased field name
EventsColumns == {"sequence", "aggregate_id", "event_type", "event_json"}
dbEventColumns == {"sequence", "aggregate_id", "event_json", "event_type"}
RecordedEventColumns == {"sequence", "aggregateid", "event", "eventtype"}

\* sqlx Select of `select * from events ...` into a slice of structs: every
\* column of the result needs a destination field, or Select fails with
\* "missing destination name" before it scans a row
Select(dest, rows) ==
  IF EventsColumns \subseteq dest
  THEN [err |-> "", rows |-> rows]
  ELSE [err |-> "missing destination name", rows |-> <<>>]

\* simpleStore.LoadStream: a copy of s.streams[aggregateID]
simpleStore_LoadStream(a) == [err |-> "", recs |-> streams[a]]

\* fileStore.LoadStream: select * from events where aggregate_id = ? order by
\* sequence asc, into []RecordedEvent
fileStore_LoadStream(a) ==
  LET sel == Select(RecordedEventColumns,
                    OrderBySequence({r \in Range(table) : r.AggregateID = a}))
  IN  IF sel.err # ""
      THEN [err |-> "select from events", recs |-> <<>>]
      ELSE [err |-> "", recs |-> sel.rows]

\* LoadStream runs under the mutex from its first to its last statement
LoadStream(p) ==
  /\ callers[p].pc = "idle"
  /\ MutexFree(mu)
  /\ calls < MaxCalls
  /\ \E a \in Aggregates :
       LET r == IF backend = "simple" THEN simpleStore_LoadStream(a)
                                       ELSE fileStore_LoadStream(a)
       IN  loaded' = [loaded EXCEPT
                        ![p] = [agg |-> a, err |-> r.err, recs |-> r.recs,
                                at |-> Len(Log), done |-> TRUE]]
  /\ calls' = calls + 1
  /\ UNCHANGED <<backend, events, streams, nextSequence, table, sqlite_sequence,
                 registry, mu, publishers, callers, result, delivered, writer>>
  /\ UNCHANGED notStore

\* number of publishers of a store that fans out
MaxFanout == 2

\* RegisterPublisher on a store that is given several publishers
RegisterPublishers ==
  /\ calls = 0
  /\ publishers < MaxFanout
  /\ publishers' = publishers + 1
  /\ UNCHANGED <<backend, events, streams, nextSequence, table, sqlite_sequence,
                 registry, mu, callers, result, loaded, delivered, writer,
                 calls>>
  /\ UNCHANGED notStore

\* Record on a store with several publishers
FanoutNext ==
  \/ RegisterPublishers
  \/ \E p \in Callers :
       \/ Record_Call(p)
       \/ appendEvents_Enter(p)
       \/ simpleStore_appendEvent(p)
       \/ fileStore_appendEvent(p)
       \/ appendEvents_Return(p)
       \/ Record_Publish(p)
       \/ Record_Return(p)

StoreNext ==
  \/ RegisterPublisher
  \/ \E p \in Callers :
       \/ Record_Call(p)
       \/ appendEvents_Enter(p)
       \/ simpleStore_appendEvent(p)
       \/ fileStore_appendEvent(p)
       \/ appendEvents_Return(p)
       \/ Record_Publish(p)
       \/ Record_Return(p)
       \/ LoadStream(p)

(***************************************************************************)
(* Service (evoke.go): one sqlite database with the tables events and      *)
(* saga_instances, handlers that run inside the insert transaction and     *)
(* saga handlers that run after it.  The pool holds one connection         *)
(* (SetMaxOpenConns(1)): an open transaction keeps it until Commit or      *)
(* Rollback, every other statement takes it for the statement.  Statements *)
(* are taken to succeed: a failing database is outside this model.         *)
(***************************************************************************)
\* number of Insert and Replay calls started in one behaviour
MaxSvcCalls == 2
\* number of handlers registered with SubscribeSync
MaxSync == 2
\* number of saga handlers registered with Subscribe
MaxSagas == 2

\* goroutines calling into one Service
Goroutines == {"g1", "g2"}
\* the pool's connection is idle
NoConn == "idle"
\* payloads handed to Insert; EventType() is the type name
Payloads == {OrderCreated, Chan}
SvcTypes == {"OrderCreated", "OrderShipped", "Chan"}
\* the names given to the sagas, in registration order
SagaNames == <<"A", "B", "C">>
\* what a handler returns: nil, or an error with this message
Outcomes == {"", "boom"}

NoRow ==
  [event_id |-> 0, aggregate_id |-> "A", aggregate_type |-> "", event_type |-> "",
   event_data |-> {}, insert |-> 0]
IdleGoroutine ==
  [pc |-> "idle", op |-> "", call |-> 0, agg |-> "A", payload |-> OrderCreated,
   event |-> NoRow, h |-> 1, inst |-> 0, herr |-> "", snap |-> <<>>, i |-> 1]
NoSvcResult == [call |-> 0, op |-> "", err |-> "", cause |-> ""]

\* NewStore
SvcStart ==
  /\ db_events = <<>>
  /\ db_events_seq = 0
  /\ tx = <<>>
  /\ db_conn = NoConn
  /\ saga_instances = <<>>
  /\ handlers = [t \in SvcTypes |-> <<>>]
  /\ xhandlers = [t \in SvcTypes |-> <<>>]
  /\ svc = [g \in Goroutines |-> IdleGoroutine]
  /\ svcResult = [g \in Goroutines |-> NoSvcResult]
  /\ syncCalls = <<>>
  /\ sagaRuns = <<>>
  /\ svcCalls = 0

RECURSIVE Registered(_, _)
\* the number of handlers in a handler map, over the types ts
Registered(m, ts) ==
  IF ts = {} THEN 0
  ELSE LET t == CHOOSE x \in ts : TRUE
       IN  Len(m[t]) + Registered(m, ts \ {t})

\* SubscribeSync(payload, handler): the maps are plain Go maps, written at
\* start-up before any Insert
SubscribeSync ==
  /\ svcCalls = 0
  /\ Registered(handlers, SvcTypes) < MaxSync
  /\ \E t \in SvcTypes \ {"Chan"} :
       handlers' = [handlers EXCEPT
                      ![t] = Append(@, Registered(handlers, SvcTypes) + 1)]
  /\ UNCHANGED <<db_events, db_events_seq, tx, db_conn, saga_instances,
                 xhandlers, svc, svcResult, syncCalls, sagaRuns, svcCalls>>
  /\ UNCHANGED notSvc

\* Subscribe(name, payload, handler)
Subscribe ==
  /\ svcCalls = 0
  /\ Registered(xhandlers, SvcTypes) < MaxSagas
  /\ \E t \in SvcTypes \ {"Chan"} :
       xhandlers' = [xhandlers EXCEPT
                       ![t] = Append(@, [Name |-> SagaNames[Registered(xhandlers, SvcTypes) + 1],
                                         HandlerFunc |->
                                           Registered(xhandlers, SvcTypes) + 1])]
  /\ UNCHANGED <<db_events, db_events_seq, tx, db_conn, saga_instances,
                 handlers, svc, svcResult, syncCalls, sagaRuns, svcCalls>>
  /\ UNCHANGED notSvc

\* a goroutine enters Insert(aggregateID, payload)
Insert_Call(g) ==
  /\ svc[g].pc = "idle"
  /\ svcCalls < MaxSvcCalls
  /\ \E a \in Aggregates, pl \in Payloads :
       svc' = [svc EXCEPT
                 ![g] = [IdleGoroutine EXCEPT !.pc = "begin", !.op = "Insert",
                                              !.call = svcCalls + 1,
                                              !.agg = a, !.payload = pl]]
  /\ svcCalls' = svcCalls + 1
  /\ UNCHANGED <<db_events, db_events_seq, tx, db_conn, saga_instances,
                 handlers, xhandlers, svcResult, syncCalls, sagaRuns>>
  /\ UNCHANGED notSvc

\* the goroutine's Insert or Replay returns err
SvcReturn(g, err, cause) ==
  /\ svcResult' = [svcResult EXCEPT
                     ![g] = [call |-> svc[g].call, op |-> svc[g].op,
                             err |-> err, cause |-> cause]]
  /\ svc' = [svc EXCEPT ![g] = [IdleGoroutine EXCEPT !.call = svc[g].call]]

\* a rollback that keeps what the transaction wrote
RollbackKeepsRows(tbl, rows) == tbl \o rows
\* tx.Rollback() (deferred): the rows of the transaction are discarded
Rollback(tbl, rows) == tbl

\* a commit that loses what the transaction wrote
CommitDropsRows(tbl, rows) == tbl
\* tx.Commit(): the rows of the transaction join the table
Commit(tbl, rows) == tbl \o rows

\* s.db.Beginx(): waits for the pool's connection and keeps it
Insert_Begin(g) ==
  /\ svc[g].pc = "begin"
  /\ db_conn = NoConn
  /\ db_conn' = g
  /\ svc' = [svc EXCEPT ![g].pc = "insert"]
  /\ UNCHANGED <<db_events, db_events_seq, tx, saga_instances, handlers,
                 xhandlers, svcResult, syncCalls, sagaRuns, svcCalls>>
  /\ UNCHANGED notSvc

\* json.Marshal(payload), then tx.Get(&event, `insert into events ... returning *`)
Insert_Row(g) ==
  /\ svc[g].pc = "insert"
  /\ LET c == svc[g]
         row == [event_id |-> db_events_seq + 1, aggregate_id |-> c.agg,
                 aggregate_type |-> "order", event_type |-> TypeName(c.payload),
                 event_data |-> Marshal(c.payload), insert |-> c.call]
     IN  IF MarshalFails(c.payload)
         THEN /\ SvcReturn(g, "json.Marshal", "")
              /\ db_events' = Rollback(db_events, tx)
              /\ tx' = <<>>
              /\ db_conn' = NoConn
         ELSE /\ tx' = Append(tx, row)
              /\ svc' = [svc EXCEPT ![g].pc = "sync", ![g].event = row]
              /\ UNCHANGED <<db_events, db_conn, svcResult>>
  /\ UNCHANGED <<db_events_seq, saga_instances, handlers, xhandlers, syncCalls,
                 sagaRuns, svcCalls>>
  /\ UNCHANGED notSvc

\* runEventHandlers(event, false) inside the transaction: one handler call;
\* the first error ends Insert and the deferred Rollback runs
Insert_runEventHandler(g) ==
  /\ svc[g].pc = "sync"
  /\ svc[g].h <= Len(handlers[svc[g].event.event_type])
  /\ LET c == svc[g]
     IN  \E o \in Outcomes :
           /\ syncCalls' = Append(syncCalls,
                                  [handler |-> handlers[c.event.event_type][c.h],
                                   event |-> c.event, replay |-> FALSE,
                                   call |-> c.call, outcome |-> o])
           /\ IF o # ""
              THEN /\ SvcReturn(g, "handler failed", o)
                   /\ db_events' = Rollback(db_events, tx)
                   /\ tx' = <<>>
                   /\ db_conn' = NoConn
              ELSE /\ svc' = [svc EXCEPT ![g].h = @ + 1]
                   /\ UNCHANGED <<db_events, tx, db_conn, svcResult>>
  /\ UNCHANGED <<db_events_seq, saga_instances, handlers, xhandlers, sagaRuns,
                 svcCalls>>
  /\ UNCHANGED notSvc

\* every handler returned nil: tx.Commit()
Insert_Commit(g) ==
  /\ svc[g].pc = "sync"
  /\ svc[g].h > Len(handlers[svc[g].event.event_type])
  /\ db_events' = Commit(db_events, tx)
  /\ db_events_seq' = svc[g].event.event_id
  /\ tx' = <<>>
  /\ db_conn' = NoConn
  /\ svc' = [svc EXCEPT ![g].pc = "saga", ![g].h = 1]
  /\ UNCHANGED <<saga_instances, handlers, xhandlers, svcResult, syncCalls,
                 sagaRuns, svcCalls>>
  /\ UNCHANGED notSvc

\* a statement that keeps the pool's connection after it is done
StatementKeepsConn(g) == g
\* s.db.Get / s.db.Exec outside a transaction: the connection is back in the
\* pool when the statement is done
StatementConn(g) == NoConn

\* xrunEventHandlers: insert into saga_instances(event_id, saga_name, status)
\* values(?,?,'running'), then the call of the saga handler begins
Insert_SagaStart(g) ==
  /\ svc[g].pc = "saga"
  /\ svc[g].h <= Len(xhandlers[svc[g].event.event_type])
  /\ db_conn = NoConn
  /\ LET c == svc[g]
         sh == xhandlers[c.event.event_type][c.h]
         id == Len(saga_instances) + 1
     IN  /\ saga_instances' =
              Append(saga_instances,
                     [saga_instance_id |-> id, event_id |-> c.event.event_id,
                      saga_name |-> sh.Name, status |-> "running",
                      last_error |-> ""])
         /\ sagaRuns' = Append(sagaRuns,
                               [handler |-> sh.HandlerFunc, name |-> sh.Name,
                                event |-> c.event, replay |-> FALSE,
                                call |-> c.call, returned |-> FALSE,
                                outcome |-> "", committed |-> Len(db_events)])
         /\ svc' = [svc EXCEPT ![g].pc = "sagaRunning", ![g].inst = id]
  /\ db_conn' = StatementConn(g)
  /\ UNCHANGED <<db_events, db_events_seq, tx, handlers, xhandlers,
                 svcResult, syncCalls, svcCalls>>
  /\ UNCHANGED notSvc

\* the saga handler returns nil or an error
Insert_SagaReturn(g) ==
  /\ svc[g].pc = "sagaRunning"
  /\ \E o \in Outcomes :
       /\ svc' = [svc EXCEPT ![g].pc = "sagaUpdate", ![g].herr = o]
       /\ sagaRuns' = [sagaRuns EXCEPT ![svc[g].inst].returned = TRUE,
                                       ![svc[g].inst].outcome = o]
  /\ UNCHANGED <<db_events, db_events_seq, tx, db_conn, saga_instances,
                 handlers, xhandlers, svcResult, syncCalls, svcCalls>>
  /\ UNCHANGED notSvc

\* a status column that reads completed whatever the handler returned
SagaStatusAlwaysCompleted(herr) == "completed"
\* the status xrunEventHandlers writes after the handler returned
SagaStatus(herr) == IF herr # "" THEN "error" ELSE "completed"

\* an update without its where clause
UpdateEverySagaInstance(tbl, id, status, lastError) ==
  [n \in 1..Len(tbl) |->
     [tbl[n] EXCEPT !.status = status,
                    !.last_error = IF status = "error" THEN lastError ELSE @]]
\* update saga_instances set status = ?, [last_error = ?,] updated_at = ?
\* where saga_instance_id = ?
UpdateSagaInstance(tbl, id, status, lastError) ==
  [n \in 1..Len(tbl) |->
     IF tbl[n].saga_instance_id = id
     THEN [tbl[n] EXCEPT !.status = status,
                         !.last_error = IF status = "error" THEN lastError ELSE @]
     ELSE tbl[n]]

\* xrunEventHandlers: the update of the instance, then on to the next handler
Insert_SagaUpdate(g) ==
  /\ svc[g].pc = "sagaUpdate"
  /\ db_conn = NoConn
  /\ saga_instances' = UpdateSagaInstance(saga_instances, svc[g].inst,
                                          SagaStatus(svc[g].herr), svc[g].herr)
  /\ svc' = [svc EXCEPT ![g].pc = "saga", ![g].h = @ + 1]
  /\ UNCHANGED <<db_events, db_events_seq, tx, db_conn, handlers, xhandlers,
                 svcResult, syncCalls, sagaRuns, svcCalls>>
  /\ UNCHANGED notSvc

\* xrunEventHandlers returned nil: Insert returns nil
Insert_Return(g) ==
  /\ svc[g].pc = "saga"
  /\ svc[g].h > Len(xhandlers[svc[g].event.event_type])
  /\ SvcReturn(g, "", "")
  /\ UNCHANGED <<db_events, db_events_seq, tx, db_conn, saga_instances,
                 handlers, xhandlers, syncCalls, sagaRuns, svcCalls>>
  /\ UNCHANGED notSvc

\* Replay: select * from events order by event_id asc
Replay_Call(g) ==
  /\ svc[g].pc = "idle"
  /\ svcCalls < MaxSvcCalls
  /\ db_conn = NoConn
  /\ svc' = [svc EXCEPT
               ![g] = [IdleGoroutine EXCEPT !.pc = "replay", !.op = "Replay",
                                            !.call = svcCalls + 1,
                                            !.snap = db_events]]
  /\ svcCalls' = svcCalls + 1
  /\ UNCHANGED <<db_events, db_events_seq, tx, db_conn, saga_instances,
                 handlers, xhandlers, svcResult, syncCalls, sagaRuns>>
  /\ UNCHANGED notSvc

\* Replay: runEventHandlers(event, true) for the next event: one handler call,
\* or on to the next event when its handlers are done
Replay_runEventHandler(g) ==
  /\ svc[g].pc = "replay"
  /\ svc[g].i <= Len(svc[g].snap)
  /\ LET c == svc[g]
         ev == c.snap[c.i]
     IN  IF c.h > Len(handlers[ev.event_type])
         THEN /\ svc' = [svc EXCEPT ![g].i = @ + 1, ![g].h = 1]
              /\ UNCHANGED <<svcResult, syncCalls>>
         ELSE \E o \in Outcomes :
                /\ syncCalls' = Append(syncCalls,
                                       [handler |-> handlers[ev.event_type][c.h],
                                        event |-> ev, replay |-> TRUE,
                                        call |-> c.call, outcome |-> o])
                /\ IF o # ""
                   THEN SvcReturn(g, "replay failed", o)
                   ELSE /\ svc' = [svc EXCEPT ![g].h = @ + 1]
                        /\ UNCHANGED svcResult
  /\ UNCHANGED <<db_events, db_events_seq, tx, db_conn, saga_instances,
                 handlers, xhandlers, sagaRuns, svcCalls>>
  /\ UNCHANGED notSvc

\* a Replay that puts every saga instance back to running before it returns
Replay_ReturnResettingSagas(g) ==
  /\ svc[g].pc = "replay"
  /\ svc[g].i > Len(svc[g].snap)
  /\ SvcReturn(g, "", "")
  /\ saga_instances' = [n \in 1..Len(saga_instances) |->
                          [saga_instances[n] EXCEPT !.status = "running"]]
  /\ UNCHANGED <<db_events, db_events_seq, tx, db_conn,
                 handlers, xhandlers, syncCalls, sagaRuns, svcCalls>>
  /\ UNCHANGED notSvc

\* Replay returns nil
Replay_Return(g) ==
  /\ svc[g].pc = "replay"
  /\ svc[g].i > Len(svc[g].snap)
  /\ SvcReturn(g, "", "")
  /\ UNCHANGED <<db_events, db_events_seq, tx, db_conn, saga_instances,
                 handlers, xhandlers, syncCalls, sagaRuns, svcCalls>>
  /\ UNCHANGED notSvc

\* LoadAggregateEvents: select * from events where aggregate_id = ? order by
\* event_id asc
LoadAggregateEvents(a) == SelectSeq(db_events, LAMBDA r : r.aggregate_id = a)

\* LoadAllEvents(reverse): select * from events order by event_id asc | desc
LoadAllEvents(reverse) ==
  IF reverse
  THEN [n \in 1..Len(db_events) |-> db_events[Len(db_events) + 1 - n]]
  ELSE db_events

SvcNext ==
  \/ SubscribeSync
  \/ Subscribe
  \/ \E g \in Goroutines :
       \/ Insert_Call(g)
       \/ Insert_Begin(g)
       \/ Insert_Row(g)
       \/ Insert_runEventHandler(g)
       \/ Insert_Commit(g)
       \/ Insert_SagaStart(g)
       \/ Insert_SagaReturn(g)
       \/ Insert_SagaUpdate(g)
       \/ Insert_Return(g)
       \/ Replay_Call(g)
       \/ Replay_runEventHandler(g)
       \/ Replay_Return(g)

(***************************************************************************)
(* The EventRegistry on its own (registry.go): RegisterEvent and           *)
(* UnmarshalEvent called directly, with events encoded by json.Marshal.    *)
(***************************************************************************)
\* number of RegisterEvent calls on the registry
MaxRegistrations == 2
\* number of UnmarshalEvent calls on the registry
MaxDecodes == 2

\* the event shapes registered, and the event values encoded
RegTypes == {"OrderCreated", "OrderShipped"}
RegEvents == {Ev(t, id, note) : t \in RegTypes, id \in {"a", "b"}, note \in {"", "x"}}
\* the values handed to RegisterEvent: the zero value of the shape or a
\* populated one, each either as a struct value or behind a pointer
CtorValues == {ZeroValue, [ID |-> "a", Note |-> "x"]}

\* the zero EventRegistry: a nil map
RegStart ==
  /\ er = [t \in TypeNames |-> NotRegistered]
  /\ decoded = <<>>
  /\ registrations = 0

\* RegisterEvent(er, ctor)
Registry_RegisterEvent ==
  /\ registrations < MaxRegistrations
  /\ \E t \in RegTypes, isPtr \in BOOLEAN, v \in CtorValues :
       er' = RegisterEvent(er, t, isPtr, v)
  /\ registrations' = registrations + 1
  /\ UNCHANGED decoded
  /\ UNCHANGED notReg

\* bytes, _ := json.Marshal(e); er.UnmarshalEvent(TypeName(e), bytes), for a
\* registered shape
Registry_UnmarshalEvent ==
  /\ Len(decoded) < MaxDecodes
  /\ \E e \in RegEvents :
       /\ er[TypeName(e)].registered
       /\ LET dec == UnmarshalEvent(er, TypeName(e), Marshal(e))
          IN  /\ er' = dec.registry
              /\ decoded' = Append(decoded,
                                   [e |-> e, ptr |-> er[TypeName(e)].ptr,
                                    err |-> dec.err, event |-> dec.event])
  /\ UNCHANGED registrations
  /\ UNCHANGED notReg

RegNext ==
  \/ Registry_RegisterEvent
  \/ Registry_UnmarshalEvent

(***************************************************************************)
(* The buses (commandbus.go, simpleeventbus.go).  A handler is named by    *)
(* the ordinal of the call that registered it.  What a handler does is     *)
(* left open: it returns nil or an error.                                  *)
(***************************************************************************)
\* number of RegisterHandler calls on the command bus
MaxHandlers == 2
\* number of Send calls
MaxSends == 2
\* number of Subscribe calls on the event bus
MaxSubscribers == 2
\* number of Publish calls
MaxPublishes == 2

\* TypeName of the commands, and of the events, that callers use
CommandTypes == {"CreateOrder", "ShipOrder"}
BusEventTypes == {"OrderCreated", "OrderShipped"}

NoPublish == [pc |-> "idle", id |-> 0, type |-> "", replay |-> FALSE,
              handlers |-> <<>>, i |-> 1]

\* NewCommandBus, NewEventBus
BusStart ==
  /\ cmdHandlers = [t \in CommandTypes |-> 0]
  /\ registered = <<>>
  /\ sends = <<>>
  /\ handled = <<>>
  /\ crashed = FALSE
  /\ subscribers = [t \in BusEventTypes |-> <<>>]
  /\ subscribed = <<>>
  /\ pub = NoPublish
  /\ publishes = <<>>
  /\ busCalls = <<>>

\* a lookup that never finds a handler
ExistsNever(m, t) == FALSE
\* _, exists := b.handlers[TypeName(cmd)]
Exists(m, t) == m[t] # 0

\* RegisterHandler(cmd, handler): panics when the type has a handler; the
\* panic is recovered by the caller or ends the program
RegisterHandler ==
  /\ ~crashed
  /\ Len(registered) < MaxHandlers
  /\ \E t \in CommandTypes :
       LET h == Len(registered) + 1
       IN  IF Exists(cmdHandlers, t)
           THEN /\ registered' = Append(registered,
                                        [type |-> t, handler |-> h, panicked |-> TRUE])
                /\ crashed' \in BOOLEAN
                /\ UNCHANGED cmdHandlers
           ELSE /\ registered' = Append(registered,
                                        [type |-> t, handler |-> h, panicked |-> FALSE])
                /\ cmdHandlers' = [cmdHandlers EXCEPT ![t] = h]
                /\ UNCHANGED crashed
  /\ UNCHANGED <<sends, handled, subscribers, subscribed, pub, publishes, busCalls>>
  /\ UNCHANGED notBus

\* Send(cmd): the lookup under the read lock, then h.Handle(cmd)
Send ==
  /\ ~crashed
  /\ Len(sends) < MaxSends
  /\ \E t \in CommandTypes, o \in Outcomes :
       LET id == Len(sends) + 1
       IN  IF ~Exists(cmdHandlers, t)
           THEN /\ o = ""
                /\ sends' = Append(sends, [type |-> t, regs |-> Len(registered),
                                           err |-> "no handler for command"])
                /\ UNCHANGED handled
           ELSE /\ handled' = Append(handled, [handler |-> cmdHandlers[t], type |-> t,
                                               send |-> id, outcome |-> o])
                /\ sends' = Append(sends, [type |-> t, regs |-> Len(registered),
                                           err |-> o])
  /\ UNCHANGED <<cmdHandlers, registered, crashed, subscribers, subscribed, pub,
                 publishes, busCalls>>
  /\ UNCHANGED notBus

\* Subscribe(evt, handler): append under the write lock
Bus_Subscribe ==
  /\ ~crashed
  /\ Len(subscribed) < MaxSubscribers
  /\ \E t \in BusEventTypes :
       LET h == Len(subscribed) + 1
       IN  /\ subscribers' = [subscribers EXCEPT ![t] = Append(@, h)]
           /\ subscribed' = Append(subscribed, [type |-> t, handler |-> h])
  /\ UNCHANGED <<cmdHandlers, registered, sends, handled, crashed, pub, publishes,
                 busCalls>>
  /\ UNCHANGED notBus

\* an error check that never fires
HandlerNeverFailed(o) == FALSE
\* err != nil
HandlerFailed(o) == o # ""

\* Publish returns err
Publish_Done(err) ==
  /\ publishes' = [publishes EXCEPT ![pub.id].done = TRUE, ![pub.id].err = err]
  /\ pub' = NoPublish

\* Publish(evt, replay): the lookup of the subscribers under the read lock
Publish_Call ==
  /\ ~crashed
  /\ pub.pc = "idle"
  /\ Len(publishes) < MaxPublishes
  /\ \E t \in BusEventTypes, r \in BOOLEAN :
       /\ publishes' = Append(publishes, [type |-> t, replay |-> r,
                                          subs |-> Len(subscribed),
                                          done |-> FALSE, err |-> ""])
       /\ pub' = [pc |-> "loop", id |-> Len(publishes) + 1, type |-> t,
                  replay |-> r, handlers |-> subscribers[t], i |-> 1]
  /\ UNCHANGED <<cmdHandlers, registered, sends, handled, crashed, subscribers,
                 subscribed, busCalls>>
  /\ UNCHANGED notBus

\* Publish: one h.Handle(evt.Event, replay) of the loop over the handlers
Publish_Handle ==
  /\ pub.pc = "loop"
  /\ pub.i <= Len(pub.handlers)
  /\ \E o \in Outcomes :
       /\ busCalls' = Append(busCalls, [handler |-> pub.handlers[pub.i],
                                        type |-> pub.type, replay |-> pub.replay,
                                        publish |-> pub.id, outcome |-> o])
       /\ IF HandlerFailed(o)
          THEN Publish_Done(o)
          ELSE /\ pub' = [pub EXCEPT !.i = @ + 1]
               /\ UNCHANGED publishes
  /\ UNCHANGED <<cmdHandlers, registered, sends, handled, crashed, subscribers,
                 subscribed>>
  /\ UNCHANGED notBus

\* Publish returns nil: no subscription, or every handler returned nil
Publish_Return ==
  /\ pub.pc = "loop"
  /\ pub.i > Len(pub.handlers)
  /\ Publish_Done("")
  /\ UNCHANGED <<cmdHandlers, registered, sends, handled, crashed, subscribers,
                 subscribed, busCalls>>
  /\ UNCHANGED notBus

BusNext ==
  \/ RegisterHandler
  \/ Send
  \/ Bus_Subscribe
  \/ Publish_Call
  \/ Publish_Handle
  \/ Publish_Return

(***************************************************************************)
(* AggregateHandler (aggregatehandler.go): Handle loads the aggregate's    *)
(* stream, folds it with Apply, lets the aggregate decide with             *)
(* HandleCommand and records the new events.  The aggregate is the         *)
(* caller's: Apply and HandleCommand return nil or an error, and           *)
(* HandleCommand any batch of events.  The folded state is the list of the *)
(* sequence numbers applied.                                               *)
(***************************************************************************)
\* number of Handle calls started in one behaviour
MaxCommands == 2

IdleHandler ==
  [pc |-> "idle", cmd |-> 0, agg |-> "A", recs |-> <<>>, i |-> 1, folded |-> <<>>,
   failed |-> "", decided |-> FALSE, call |-> 0]
NoHandleResult == [cmd |-> 0, agg |-> "A", err |-> "", failed |-> "",
                   decided |-> FALSE, call |-> 0]

\* the batches HandleCommand decides on: none, one or two events
Decisions == {evs \in Batches : \A n \in 1..Len(evs) : evs[n] = OrderCreated}

\* NewAggregateHandler
HandleStart ==
  /\ handling = [p \in Callers |-> IdleHandler]
  /\ handleResult = [p \in Callers |-> NoHandleResult]
  /\ origin = <<>>
  /\ commands = 0

\* a caller enters Handle(cmd); aggID := cmd.AggregateID()
Handle_Call(p) ==
  /\ handling[p].pc = "idle"
  /\ callers[p].pc = "idle"
  /\ commands < MaxCommands
  /\ \E a \in Aggregates :
       handling' = [handling EXCEPT
                      ![p] = [IdleHandler EXCEPT !.pc = "load", !.cmd = commands + 1,
                                                 !.agg = a]]
  /\ commands' = commands + 1
  /\ UNCHANGED <<handleResult, origin>>
  /\ UNCHANGED storeVars
  /\ UNCHANGED notHandle

\* Handle returns err
HandleReturn(p, err) ==
  /\ handleResult' = [handleResult EXCEPT
                        ![p] = [cmd |-> handling[p].cmd, agg |-> handling[p].agg,
                                err |-> err,
                                failed |-> IF handling[p].failed # ""
                                           THEN handling[p].failed ELSE err,
                                decided |-> handling[p].decided,
                                call |-> handling[p].call]]
  /\ handling' = [handling EXCEPT ![p] = IdleHandler]

\* events, err := h.store.LoadStream(aggID)
Handle_LoadStream(p) ==
  /\ handling[p].pc = "load"
  /\ MutexFree(mu)
  /\ LET r == IF backend = "simple" THEN simpleStore_LoadStream(handling[p].agg)
                                     ELSE fileStore_LoadStream(handling[p].agg)
     IN  IF r.err # ""
         THEN HandleReturn(p, "LoadStream")
         ELSE /\ handling' = [handling EXCEPT ![p].pc = "apply", ![p].recs = r.recs]
              /\ UNCHANGED handleResult
  /\ UNCHANGED <<origin, commands>>
  /\ UNCHANGED storeVars
  /\ UNCHANGED notHandle

\* an error check that lets every error pass
AbortNever(err) == FALSE
\* if err != nil { return ... }
Abort(err) == err # ""

\* the loop over the loaded records: err := agg.Apply(rec.Event)
Handle_Apply(p) ==
  /\ handling[p].pc = "apply"
  /\ handling[p].i <= Len(handling[p].recs)
  /\ \E err \in {"", "Apply"} :
       IF Abort(err)
       THEN HandleReturn(p, err)
       ELSE /\ handling' = [handling EXCEPT
                              ![p].i = @ + 1,
                              ![p].folded = Append(@, handling[p].recs[handling[p].i].Sequence),
                              ![p].failed = IF @ # "" THEN @ ELSE err]
            /\ UNCHANGED handleResult
  /\ UNCHANGED <<origin, commands>>
  /\ UNCHANGED storeVars
  /\ UNCHANGED notHandle

\* newEvents, err := agg.HandleCommand(cmd), then the call of
\* h.store.Record(aggID, newEvents)
Handle_HandleCommand(p) ==
  /\ handling[p].pc = "apply"
  /\ handling[p].i > Len(handling[p].recs)
  /\ \E err \in {"", "HandleCommand"}, evs \in Decisions :
       IF Abort(err)
       THEN /\ evs = <<>>
            /\ handleResult' = [handleResult EXCEPT
                                  ![p] = [cmd |-> handling[p].cmd, agg |-> handling[p].agg,
                                          err |-> err,
                                          failed |-> IF handling[p].failed # ""
                                                     THEN handling[p].failed ELSE err,
                                          decided |-> TRUE, call |-> 0]]
            /\ handling' = [handling EXCEPT ![p] = IdleHandler]
            /\ UNCHANGED <<callers, calls, origin>>
       ELSE /\ handling' = [handling EXCEPT
                              ![p].pc = "record", ![p].decided = TRUE,
                              ![p].call = calls + 1,
                              ![p].failed = IF @ # "" THEN @ ELSE err]
            /\ callers' = [callers EXCEPT
                             ![p] = [IdleCaller EXCEPT !.pc = "lock", !.call = calls + 1,
                                                       !.agg = handling[p].agg,
                                                       !.evs = evs]]
            /\ calls' = calls + 1
            /\ origin' = Append(origin, [call |-> calls + 1, cmd |-> handling[p].cmd,
                                         agg |-> handling[p].agg,
                                         folded |-> handling[p].folded])
            /\ UNCHANGED handleResult
  /\ UNCHANGED commands
  /\ UNCHANGED <<backend, events, streams, nextSequence, table, sqlite_sequence,
                 registry, mu, publishers, result, loaded, delivered, writer>>
  /\ UNCHANGED notHandle

\* Record has returned: Handle returns its error
Handle_Return(p) ==
  /\ handling[p].pc = "record"
  /\ callers[p].pc = "idle"
  /\ result[p].call = handling[p].call
  /\ HandleReturn(p, result[p].err)
  /\ UNCHANGED <<origin, commands>>
  /\ UNCHANGED storeVars
  /\ UNCHANGED notHandle

\* a step inside Record, of a store that has no publisher
RecordStep(p) ==
  /\ \/ appendEvents_Enter(p)
     \/ simpleStore_appendEvent(p)
     \/ fileStore_appendEvent(p)
     \/ appendEvents_Return(p)
     \/ Record_Return(p)
  /\ UNCHANGED ahVars

\* one caller calls Record itself, before the first command arrives; the
\* call may still be running when it does
DirectRecord(p) ==
  /\ handling[p].pc = "idle"
  /\ commands = 0
  /\ calls = 0
  /\ Record_Call(p)
  /\ UNCHANGED ahVars

HandleNext ==
  \E p \in Callers :
    \/ Handle_Call(p)
    \/ Handle_LoadStream(p)
    \/ Handle_Apply(p)
    \/ Handle_HandleCommand(p)
    \/ Handle_Return(p)
    \/ RecordStep(p)
    \/ DirectRecord(p)

(***************************************************************************)
(* Replay from the stores: fileStore.ReplayFrom(seq, publisher) reads the  *)
(* rows with sequence >= seq, decodes each through the registry and hands  *)
(* it to the publisher with replay = true, all under the store's mutex;    *)
(* simpleStore.TailFrom(seq, callback) copies the records under the mutex  *)
(* and calls the callback, which takes no replay flag, after unlocking.    *)
(***************************************************************************)
\* number of ReplayFrom / TailFrom calls started in one behaviour
MaxReplays == 2
\* the largest seq handed to ReplayFrom / TailFrom
MaxSeq == 2

\* a second value of the shape OrderCreated, with its Note set
OrderNoted == Ev("OrderCreated", "b", "x")
\* the batches recorded before and between replays
ReplayEvents == IF backend = "simple" THEN {OrderCreated}
                ELSE {OrderCreated, OrderNoted, Ghost}
\* events per Record call that feeds a replay
ReplayBatch == 1
ReplayBatches == [1..ReplayBatch -> ReplayEvents]

IdleReplay == [pc |-> "idle", id |-> 0, rows |-> <<>>, i |-> 1]

ReplayStart ==
  /\ replaying = [p \in Callers |-> IdleReplay]
  /\ replays = <<>>

\* a select that leaves out the row with the sequence asked for
FromSequenceExclusive(rows, seq) == SelectSeq(rows, LAMBDA r : r.Sequence > seq)
\* select ... where sequence >= ? order by sequence asc, and the loop of
\* TailFrom over s.events with e.Sequence >= start
FromSequence(rows, seq) == SelectSeq(rows, LAMBDA r : r.Sequence >= seq)

\* a caller enters Record with a batch to be replayed later
Replay_Record(p) ==
  /\ replaying[p].pc = "idle"
  /\ callers[p].pc = "idle"
  /\ calls < MaxCalls
  /\ \E evs \in ReplayBatches :
       callers' = [callers EXCEPT
                     ![p] = [IdleCaller EXCEPT !.pc = "lock", !.call = calls + 1,
                                               !.agg = "A", !.evs = evs]]
  /\ calls' = calls + 1
  /\ UNCHANGED <<backend, events, streams, nextSequence, table, sqlite_sequence,
                 registry, mu, publishers, result, loaded, delivered, writer>>
  /\ UNCHANGED rpVars
  /\ UNCHANGED notReplay

\* ReplayFrom: s.mu.Lock() and the select into []dbEvent; TailFrom: the copy
\* of the records under the mutex
ReplayFrom_Call(p) ==
  /\ replaying[p].pc = "idle"
  /\ callers[p].pc = "idle"
  /\ Len(replays) < MaxReplays
  /\ MutexFree(mu)
  /\ \E seq \in 1..MaxSeq :
       LET sel == Select(dbEventColumns, FromSequence(OrderBySequence(Range(table)), seq))
           rows == IF backend = "simple" THEN FromSequence(events, seq) ELSE sel.rows
       IN  /\ sel.err = ""
           /\ replays' = Append(replays, [seq |-> seq, at |-> Len(Log),
                                          published |-> <<>>, done |-> FALSE,
                                          err |-> ""])
           /\ replaying' = [replaying EXCEPT
                              ![p] = [pc |-> "loop", id |-> Len(replays) + 1,
                                      rows |-> rows, i |-> 1]]
  /\ mu' = IF backend = "simple" THEN mu ELSE p
  /\ UNCHANGED <<backend, events, streams, nextSequence, table, sqlite_sequence,
                 registry, publishers, callers, result, loaded, delivered, writer,
                 calls>>
  /\ UNCHANGED notReplay

\* ReplayFrom / TailFrom returns err; the deferred s.mu.Unlock() of ReplayFrom
ReplayReturn(p, err) ==
  /\ replays' = [replays EXCEPT ![replaying[p].id].done = TRUE,
                                ![replaying[p].id].err = err]
  /\ replaying' = [replaying EXCEPT ![p] = IdleReplay]
  /\ mu' = IF backend = "simple" THEN mu ELSE Unlocked

\* one iteration of the loop: fileStore decodes the row and calls
\* publisher.Publish(rec, true), simpleStore calls callback(e); ok is whether
\* the publisher returns nil
ReplayFrom_Publish(p) ==
  /\ replaying[p].pc = "loop"
  /\ replaying[p].i <= Len(replaying[p].rows)
  /\ \E ok \in BOOLEAN :
       LET c == replaying[p]
           row == c.rows[c.i]
           dec == UnmarshalEvent(registry, row.EventType, row.EventJSON)
           rec == IF backend = "simple" THEN row
                  ELSE [Sequence |-> row.Sequence, AggregateID |-> row.AggregateID,
                        EventType |-> row.EventType, Event |-> dec.event]
           flag == IF backend = "simple" THEN "none" ELSE "true"
       IN  IF backend = "file" /\ dec.err # ""
           THEN /\ ok
                /\ ReplayReturn(p, "recordedEvent")
                /\ UNCHANGED registry
           ELSE /\ registry' = IF backend = "simple" THEN registry ELSE dec.registry
                /\ IF ok
                   THEN /\ replays' = [replays EXCEPT
                                         ![c.id].published =
                                           Append(@, [rec |-> rec, replay |-> flag])]
                        /\ replaying' = [replaying EXCEPT ![p].i = @ + 1]
                        /\ UNCHANGED mu
                   ELSE /\ replays' = [replays EXCEPT
                                         ![c.id].published =
                                           Append(@, [rec |-> rec, replay |-> flag]),
                                         ![c.id].done = TRUE,
                                         ![c.id].err = "callback error"]
                        /\ replaying' = [replaying EXCEPT ![p] = IdleReplay]
                        /\ mu' = IF backend = "simple" THEN mu ELSE Unlocked
  /\ UNCHANGED <<backend, events, streams, nextSequence, table, sqlite_sequence,
                 publishers, callers, result, loaded, delivered, writer, calls>>
  /\ UNCHANGED notReplay

\* the loop is over: ReplayFrom / TailFrom returns nil
ReplayFrom_Return(p) ==
  /\ replaying[p].pc = "loop"
  /\ replaying[p].i > Len(replaying[p].rows)
  /\ ReplayReturn(p, "")
  /\ UNCHANGED <<backend, events, streams, nextSequence, table, sqlite_sequence,
                 registry, publishers, callers, result, loaded, delivered, writer,
                 calls>>
  /\ UNCHANGED notReplay

\* a step of the store outside replay: the registration of the publisher,
\* and the steps inside Record
ReplayStoreStep(p) ==
  /\ \/ RegisterPublisher
     \/ appendEvents_Enter(p)
     \/ simpleStore_appendEvent(p)
     \/ fileStore_appendEvent(p)
     \/ appendEvents_Return(p)
     \/ Record_Publish(p)
     \/ Record_Return(p)
  /\ UNCHANGED rpVars

ReplayNext ==
  \E p \in Callers :
    \/ Replay_Record(p)
    \/ ReplayStoreStep(p)
    \/ ReplayFrom_Call(p)
    \/ ReplayFrom_Publish(p)
    \/ ReplayFrom_Return(p)

(***************************************************************************)
(* Specifications: the event stores, the Service, the registry, the buses  *)
(* and the aggregate handler.                                              *)
(***************************************************************************)
\* two goroutines share one store, in-memory or sqlite; no Service is open
StoreInit ==
  /\ backend \in {"simple", "file"}
  /\ StoreStart
  /\ SvcStart
  /\ RegStart
  /\ BusStart
  /\ HandleStart
  /\ ReplayStart

\* two goroutines share one Service; the stores are left alone
SvcInit ==
  /\ backend = "file"
  /\ StoreStart
  /\ SvcStart
  /\ RegStart
  /\ BusStart
  /\ HandleStart
  /\ ReplayStart

SpecStore == StoreInit /\ [][StoreNext]_vars

SpecSvc == SvcInit /\ [][SvcNext]_vars

\* one registry, called from one goroutine; stores and Service are left alone
RegInit ==
  /\ backend = "file"
  /\ StoreStart
  /\ SvcStart
  /\ RegStart
  /\ BusStart
  /\ HandleStart
  /\ ReplayStart

SpecReg == RegInit /\ [][RegNext]_vars

\* one command bus and one event bus; stores and Service are left alone
BusInit ==
  /\ backend = "file"
  /\ StoreStart
  /\ SvcStart
  /\ RegStart
  /\ BusStart
  /\ HandleStart
  /\ ReplayStart

SpecBus == BusInit /\ [][BusNext]_vars

\* two goroutines share one AggregateHandler over one store
HandleInit ==
  /\ backend \in {"simple", "file"}
  /\ StoreStart
  /\ SvcStart
  /\ RegStart
  /\ BusStart
  /\ HandleStart
  /\ ReplayStart

SpecHandle == HandleInit /\ [][HandleNext]_vars

\* two goroutines record into one store and replay it
ReplayInit ==
  /\ backend \in {"simple", "file"}
  /\ StoreStart
  /\ SvcStart
  /\ RegStart
  /\ BusStart
  /\ HandleStart
  /\ ReplayStart

SpecReplay == ReplayInit /\ [][ReplayNext]_vars

\* two goroutines record into one store that has up to MaxFanout publishers
FanoutInit ==
  /\ backend \in {"simple", "file"}
  /\ StoreStart
  /\ SvcStart
  /\ RegStart
  /\ BusStart
  /\ HandleStart
  /\ ReplayStart

SpecFanout == FanoutInit /\ [][FanoutNext]_vars

(***************************************************************************)
(* Properties of the event stores.                                         *)
(***************************************************************************)
\* the positions of the log that call c wrote
RowsOf(c) == {n \in 1..Len(Log) : writer[n] = c}

\* C1: under any interleaving of concurrent Record calls on one fresh log, no
\* two events share a sequence number, sequence numbers increase strictly in
\* insertion order over the whole log, the events of one call get consecutive
\* numbers, and after N events the set of sequence numbers is exactly 1..N.
C1_MonotonicSequence ==
  /\ Len(writer) = Len(Log)
  /\ \A m, n \in 1..Len(Log) : m # n => Log[m].Sequence # Log[n].Sequence
  /\ \A m, n \in 1..Len(Log) : m < n => Log[m].Sequence < Log[n].Sequence
  /\ {Log[n].Sequence : n \in 1..Len(Log)} = 1..Len(Log)
  /\ \A m, n \in 1..Len(Log) :
       (m < n /\ writer[m] = writer[n]) =>
         /\ \A k \in m..n : writer[k] = writer[m]
         /\ Log[n].Sequence - Log[m].Sequence = n - m

\* two calls on different aggregates wrote two events each, and the call that
\* started second got the mutex first
C1_Witness ==
  /\ Len(Log) = 4
  /\ writer = <<2, 2, 1, 1>>
  /\ Log[1].AggregateID # Log[3].AggregateID

\* what LoadStream is to return: the events of the aggregate that were in the
\* log when it was called, in the order they were appended
ExpectedStream(p) ==
  SelectSeq(SubSeq(Log, 1, loaded[p].at),
            LAMBDA r : r.AggregateID = loaded[p].agg)

\* C2: LoadStream(id) returns exactly the events appended to id before the
\* call, none of another aggregate and none missing, ascending by sequence in
\* append order, and a later append does not change the list the caller holds.
C2_LoadStream ==
  \A p \in Callers :
    loaded[p].done =>
      /\ loaded[p].err = ""
      /\ Len(loaded[p].recs) = Len(ExpectedStream(p))
      /\ \A n \in 1..Len(loaded[p].recs) :
           /\ n <= Len(ExpectedStream(p))
           /\ loaded[p].recs[n].Sequence = ExpectedStream(p)[n].Sequence
           /\ loaded[p].recs[n].AggregateID = loaded[p].agg
           /\ \A m \in 1..(n - 1) :
                loaded[p].recs[m].Sequence < loaded[p].recs[n].Sequence

\* the in-memory store alone meets C2
SimpleStoreLoadStream == backend = "simple" => C2_LoadStream

\* C7: an append of an empty list of events is rejected with the no-events
\* error before any write: the step that rejects it leaves the log, every
\* stream and the next sequence number as they were and invokes no publisher.
C7_EmptyAppendRejected ==
  [][\A p \in Callers :
       (callers[p].pc = "lock" /\ Len(callers[p].evs) = 0
          /\ callers'[p] # callers[p]) =>
         /\ callers'[p].pc = "idle"
         /\ result'[p].call = callers[p].call
         /\ result'[p].err = "no events to append"
         /\ UNCHANGED <<events, streams, nextSequence, table, sqlite_sequence,
                        delivered, writer>>]_vars

\* an empty append was rejected on a log that holds events and has a publisher
C7_Witness ==
  \E p \in Callers :
    /\ result[p].call # 0
    /\ Len(result[p].evs) = 0
    /\ result[p].err = "no events to append"
    /\ Len(Log) > 0
    /\ publishers > 0
    /\ RowsOf(result[p].call) = {}

\* C8: appending an event whose type name is not registered fails with the
\* unregistered-type error and writes no row.
C8_UnregisteredWritesNoRow ==
  \A p \in Callers :
    (result[p].err = "getRecordedEvent") =>
      /\ ~registry[TypeName(result[p].evs[result[p].k])].registered
      /\ Cardinality(RowsOf(result[p].call)) = result[p].k - 1

\* C9: when encoding or persisting event k of a batch fails, the call returns
\* an error, events 1..k-1 of the batch are in the log with their sequence
\* numbers and events k..n are not.
C9_PartialFailure ==
  \A p \in Callers :
    (result[p].err \in {"Marshal", "insert into events"}) =>
      LET r == result[p]
          rows == RowsOf(r.call)
      IN  /\ r.k \in 1..Len(r.evs)
          /\ Cardinality(rows) = r.k - 1
          /\ \A n \in rows :
               LET j == 1 + Cardinality({m \in rows : m < n})
               IN  /\ table[n].EventJSON = Marshal(r.evs[j])
                   /\ table[n].EventType = TypeName(r.evs[j])
                   /\ table[n].AggregateID = r.agg
                   /\ table[n].Sequence = n

\* the second event of a batch could not be encoded, the first one is in the
\* log
C9_Witness ==
  \E p \in Callers :
    /\ result[p].err = "Marshal"
    /\ result[p].k = 2
    /\ Cardinality(RowsOf(result[p].call)) = 1

\* the records appendEvents has produced: those handed to a publisher and
\* those a Record call still holds
Produced ==
  {delivered[n].rec : n \in {k \in 1..Len(delivered) : ~delivered[k].replay}}
    \cup UNION {Range(callers[p].out) : p \in Callers}

\* C15: for every event appended to the durable backend, a later LoadStream
\* of its aggregate returns a record with the same sequence, aggregate id,
\* event type and decoded payload as the record the append produced.
C15_AppendMatchesLoad ==
  backend = "file" =>
    \A p \in Callers :
      loaded[p].done =>
        \A rec \in Produced :
          (rec.AggregateID = loaded[p].agg /\ rec.Sequence <= loaded[p].at) =>
            \E n \in 1..Len(loaded[p].recs) :
              /\ loaded[p].recs[n].Sequence = rec.Sequence
              /\ loaded[p].recs[n].AggregateID = rec.AggregateID
              /\ loaded[p].recs[n].EventType = rec.EventType
              /\ loaded[p].recs[n].Event = rec.Event

\* C16: the write exclusion lasts from the write of an event to the end of
\* its dispatch: while a Record call is dispatching, the log ends with that
\* call's events, and each publisher receives live events in ascending
\* sequence order.
C16_ExclusionCoversDispatch ==
  /\ \A p \in Callers :
       (callers[p].pc = "publish" /\ Len(callers[p].out) > 0) =>
         callers[p].out[Len(callers[p].out)].Sequence = Len(Log)
  /\ \A m, n \in 1..Len(delivered) :
       (m < n /\ delivered[m].publisher = delivered[n].publisher
          /\ ~delivered[m].replay /\ ~delivered[n].replay) =>
         delivered[m].rec.Sequence < delivered[n].rec.Sequence

(***************************************************************************)
(* Properties of the Service.                                              *)
(***************************************************************************)
\* the saga instances (their ids) that Insert call c created
SagasOf(c) == {n \in 1..Len(sagaRuns) : sagaRuns[n].call = c}
\* the committed rows that Insert call c wrote
EventsOf(c) == {n \in 1..Len(db_events) : db_events[n].insert = c}

\* C3: when a synchronous handler of the inserted event's type returns an
\* error, Insert returns that error, the event is in neither
\* LoadAggregateEvents nor LoadAllEvents afterwards, no saga instance is
\* created for it and no saga handler is invoked for it.
C3_ProjectionAtomicity ==
  \A n \in 1..Len(syncCalls) :
    (~syncCalls[n].replay /\ syncCalls[n].outcome # "") =>
      LET c == syncCalls[n].call
      IN  /\ \A g \in Goroutines :
               /\ svc[g].call = c => svc[g].pc = "idle"
               /\ svcResult[g].call = c =>
                    /\ svcResult[g].err = "handler failed"
                    /\ svcResult[g].cause = syncCalls[n].outcome
          /\ \A a \in Aggregates :
               \A m \in 1..Len(LoadAggregateEvents(a)) :
                 LoadAggregateEvents(a)[m].insert # c
          /\ \A rev \in BOOLEAN :
               \A m \in 1..Len(LoadAllEvents(rev)) :
                 LoadAllEvents(rev)[m].insert # c
          /\ SagasOf(c) = {}
          /\ Len(saga_instances) = Len(sagaRuns)

\* an Insert failed in a synchronous handler although a saga is registered
\* for its type, and another Insert is committed
C3_Witness ==
  \E g \in Goroutines :
    /\ svcResult[g].op = "Insert"
    /\ svcResult[g].err = "handler failed"
    /\ Len(xhandlers["OrderCreated"]) > 0
    /\ Len(db_events) > 0

C5_SagaStatusMonotonic ==
  [][/\ Len(saga_instances') >= Len(saga_instances)
     /\ \A n \in 1..Len(saga_instances) :
          /\ saga_instances'[n].saga_instance_id = saga_instances[n].saga_instance_id
          /\ saga_instances'[n].event_id = saga_instances[n].event_id
          /\ saga_instances'[n].saga_name = saga_instances[n].saga_name
          /\ \/ saga_instances'[n].status = saga_instances[n].status
             \/ /\ saga_instances[n].status = "running"
                /\ saga_instances'[n].status \in {"completed", "error"}
                /\ sagaRuns[n].returned
     /\ \A n \in (Len(saga_instances) + 1)..Len(saga_instances') :
          saga_instances'[n].status = "running"]_vars

\* one instance ended in error, another is still running, and a Replay ran
C5_Witness ==
  /\ \E n \in 1..Len(saga_instances) : saga_instances[n].status = "error"
  /\ \E n \in 1..Len(saga_instances) : saga_instances[n].status = "running"
  /\ \E g \in Goroutines : svcResult[g].op = "Replay"

\* C6: a saga handler is invoked, and its instance row created, only after
\* the transaction that inserted its event has committed: every instance's
\* event_id is that of a committed event, and no saga handler has run for an
\* event whose insert was rolled back or is still in flight.
C6_SagaAfterCommit ==
  /\ Len(saga_instances) = Len(sagaRuns)
  /\ \A n \in 1..Len(saga_instances) :
       \E m \in 1..Len(db_events) :
         /\ db_events[m].event_id = saga_instances[n].event_id
         /\ db_events[m] = sagaRuns[n].event
         /\ db_events[m].insert = sagaRuns[n].call
  /\ \A g \in Goroutines :
       /\ svc[g].pc \in {"begin", "insert", "sync"} => SagasOf(svc[g].call) = {}
       /\ (svcResult[g].op = "Insert" /\ svcResult[g].err # "") =>
            SagasOf(svcResult[g].call) = {}

\* a saga handler of a committed event is running while the other goroutine's
\* insert is inside its transaction
C6_Witness ==
  \E g, h \in Goroutines :
    /\ svc[g].pc = "sagaRunning"
    /\ svc[h].pc = "sync"
    /\ Len(xhandlers[svc[h].event.event_type]) > 0


\* a step of goroutine g inside Replay, from its call to its return
ReplayStep(g) ==
  /\ svc'[g] # svc[g]
  /\ svc[g].pc = "replay" \/ svc'[g].pc = "replay"

\* C12: Replay never mutates or deletes a saga instance and leaves the events
\* table unchanged: no step of a Replay call changes saga_instances or
\* events, none invokes a saga handler, and every handler call it makes is
\* of a synchronous handler with replay = true.
C12_ReplayFrame ==
  [][\A g \in Goroutines :
       ReplayStep(g) =>
         /\ saga_instances' = saga_instances
         /\ db_events' = db_events
         /\ db_events_seq' = db_events_seq
         /\ tx' = tx
         /\ sagaRuns' = sagaRuns
         /\ \A n \in (Len(syncCalls) + 1)..Len(syncCalls') :
              /\ syncCalls'[n].replay
              /\ syncCalls'[n].call = svc'[g].call
              /\ syncCalls'[n].handler \in Range(handlers[syncCalls'[n].event.event_type])]_vars

\* a Replay returned nil after calling a handler, over a log whose event has
\* a saga instance in a terminal status
C12_Witness ==
  /\ \E g \in Goroutines :
       /\ svc[g].pc = "idle"
       /\ svcResult[g].op = "Replay" /\ svcResult[g].err = ""
       /\ \E n \in 1..Len(syncCalls) :
            syncCalls[n].replay /\ syncCalls[n].call = svcResult[g].call
  /\ \E n \in 1..Len(saga_instances) : saga_instances[n].status = "error"

\* C17: a running saga handler holds no write exclusion, so another Insert
\* can write and commit meanwhile; and the Insert that triggered the sagas
\* returns only after every matching saga handler has returned.
C17_SagaDoesNotBlockWriters ==
  \A g \in Goroutines :
    /\ svc[g].pc \in {"saga", "sagaRunning", "sagaUpdate"} =>
         /\ db_conn # g
         /\ \A n \in 1..Len(tx) : tx[n].insert # svc[g].call
    /\ (svc[g].pc = "idle" /\ svcResult[g].op = "Insert"
          /\ svcResult[g].call = svc[g].call /\ svcResult[g].err = "") =>
         /\ \A n \in SagasOf(svc[g].call) : sagaRuns[n].returned
         /\ \A n \in EventsOf(svc[g].call) :
              Cardinality(SagasOf(svc[g].call)) =
                Len(xhandlers[db_events[n].event_type])

\* a saga handler has not returned yet, and another Insert has committed its
\* event since that handler was called
C17_Witness ==
  \E g \in Goroutines :
    /\ svc[g].pc = "sagaRunning"
    /\ ~sagaRuns[svc[g].inst].returned
    /\ Len(db_events) > sagaRuns[svc[g].inst].committed

\* Insert alone keeps its exclusion over the synchronous dispatch: from the
\* insert of the row to the last synchronous handler the transaction holds the
\* pool's only connection
ServiceInsertExclusion ==
  \A g \in Goroutines :
    svc[g].pc \in {"insert", "sync"} =>
      /\ db_conn = g
      /\ \A h \in Goroutines \ {g} : svc[h].pc \notin {"insert", "sync"}

(***************************************************************************)
(* Properties of the registry.                                             *)
(***************************************************************************)
\* C10: for every registered event shape and every value e of it,
\* UnmarshalEvent(TypeName(e), encode(e)) succeeds and returns a value equal
\* to e field for field, whatever value was registered and whatever was
\* decoded before for the same type name.
C10_RoundTrip ==
  \A n \in 1..Len(decoded) :
    /\ decoded[n].err = ""
    /\ decoded[n].event = decoded[n].e

(***************************************************************************)
(* Properties of the buses.                                                *)
(***************************************************************************)
\* the handler that the first RegisterHandler call for type t, among the
\* first k calls, registered; 0 when there was none
FirstHandler(t, k) ==
  LET ns == {n \in 1..k : registered[n].type = t}
  IN  IF ns = {} THEN 0
      ELSE registered[CHOOSE n \in ns : \A m \in ns : n <= m].handler

\* the Handle calls that Send call n made
HandledBy(n) == {k \in 1..Len(handled) : handled[k].send = n}

\* C18: Send of a command type without a handler returns an error, invokes no
\* handler and writes nothing to the event log; Send of a type with a handler
\* invokes exactly that handler once and returns what it returned; a second
\* RegisterHandler for a type never replaces the first handler.
C18_CommandDispatch ==
  /\ \A n \in 1..Len(sends) :
       LET h == FirstHandler(sends[n].type, sends[n].regs)
       IN  IF h = 0
           THEN /\ sends[n].err = "no handler for command"
                /\ HandledBy(n) = {}
           ELSE /\ Cardinality(HandledBy(n)) = 1
                /\ \A k \in HandledBy(n) :
                     /\ handled[k].handler = h
                     /\ handled[k].type = sends[n].type
                     /\ sends[n].err = handled[k].outcome
  /\ \A t \in CommandTypes : cmdHandlers[t] = FirstHandler(t, Len(registered))
  /\ \A n \in 1..Len(registered) :
       registered[n].panicked <=> FirstHandler(registered[n].type, n - 1) # 0
  /\ Len(Log) = 0 /\ events = <<>> /\ table = <<>>

\* a Send of an unknown type failed, a second RegisterHandler for a type
\* panicked, and a Send of that type then reached the first handler
C18_Witness ==
  /\ Len(registered) = 2
  /\ registered[1].type = registered[2].type
  /\ registered[2].panicked
  /\ Len(sends) = 2
  /\ sends[1].err = "no handler for command" /\ sends[1].regs = 2
  /\ sends[2].regs = 2
  /\ \E k \in HandledBy(2) : handled[k].handler = 1

\* the handlers subscribed to type t by the first k Subscribe calls, in
\* registration order
SubscribedTo(t, k) ==
  LET subs == SelectSeq(SubSeq(subscribed, 1, k), LAMBDA r : r.type = t)
  IN  [n \in 1..Len(subs) |-> subs[n].handler]

\* the Handle calls that Publish call n made, in order
CallsOf(n) == SelectSeq(busCalls, LAMBDA c : c.publish = n)

\* C20: the dispatch of one event invokes only the handlers registered for
\* its type, each at most once, in registration order, and stops at the first
\* handler that returns an error, which it returns; handlers after the
\* failing one are not invoked; without a handler it returns nil and invokes
\* none.
C20_SyncDispatch ==
  \A n \in 1..Len(publishes) :
    LET exp == SubscribedTo(publishes[n].type, publishes[n].subs)
        cs == CallsOf(n)
    IN  /\ Len(cs) <= Len(exp)
        /\ \A k \in 1..Len(cs) :
             /\ k <= Len(exp)
             /\ cs[k].handler = exp[k]
             /\ cs[k].type = publishes[n].type
             /\ cs[k].replay = publishes[n].replay
             /\ k < Len(cs) => cs[k].outcome = ""
        /\ publishes[n].done =>
             IF publishes[n].err = ""
             THEN /\ Len(cs) = Len(exp)
                  /\ \A k \in 1..Len(cs) : cs[k].outcome = ""
             ELSE /\ Len(cs) > 0
                  /\ cs[Len(cs)].outcome = publishes[n].err
        /\ (~publishes[n].done /\ Len(cs) > 0) => cs[Len(cs)].outcome = ""

\* of two handlers of one type the first failed and the second was not
\* invoked; and a Publish of a type without a handler returned nil
C20_Witness ==
  /\ Len(publishes) = 2
  /\ publishes[1].done /\ publishes[1].err = "boom"
  /\ Len(SubscribedTo(publishes[1].type, publishes[1].subs)) = 2
  /\ Len(CallsOf(1)) = 1
  /\ publishes[2].done /\ publishes[2].err = ""
  /\ Len(SubscribedTo(publishes[2].type, publishes[2].subs)) = 0
  /\ Len(CallsOf(2)) = 0

\* runEventHandlers dispatches likewise inside Insert and Replay: the calls
\* of one Insert are the handlers of the event's type in registration order,
\* and only the last one may have failed
ServiceSyncDispatch ==
  \A c \in 1..svcCalls :
    LET cs == SelectSeq(syncCalls, LAMBDA x : x.call = c /\ ~x.replay)
    IN  \A k \in 1..Len(cs) :
          /\ k <= Len(handlers[cs[k].event.event_type])
          /\ cs[k].handler = handlers[cs[k].event.event_type][k]
          /\ k < Len(cs) => cs[k].outcome = ""

(***************************************************************************)
(* Properties of the aggregate handler.                                    *)
(***************************************************************************)
\* the Record calls that command k made
RecordsOf(k) == {n \in 1..Len(origin) : origin[n].cmd = k}

\* C14: when Apply fails on an event of the loaded stream, Handle returns an
\* error, HandleCommand is not invoked and nothing is appended; when
\* HandleCommand returns an error nothing is appended either.
C14_AbortOnApplyError ==
  \A p \in Callers :
    /\ (handling[p].pc # "idle" /\ handling[p].failed # "") =>
         /\ ~handling[p].decided
         /\ RecordsOf(handling[p].cmd) = {}
    /\ handleResult[p].failed \in {"Apply", "HandleCommand"} =>
         /\ handleResult[p].err = handleResult[p].failed
         /\ handleResult[p].failed = "Apply" => ~handleResult[p].decided
         /\ handleResult[p].call = 0
         /\ RecordsOf(handleResult[p].cmd) = {}
         /\ \A n \in 1..Len(origin) :
              origin[n].cmd = handleResult[p].cmd => RowsOf(origin[n].call) = {}

\* over a log that holds events, one command ended in an Apply error and
\* another in a HandleCommand error
C14_Witness ==
  \E p, q \in Callers :
    /\ handleResult[p].err = "Apply"
    /\ handleResult[q].err = "HandleCommand"
    /\ Len(Log) > 0
    /\ \A n \in 1..Len(writer) : \A k \in 1..Len(origin) : writer[n] # origin[k].call

\* C19: whenever a Handle call appends events to an aggregate, the stream it
\* folded before deciding is the aggregate's full committed stream at the
\* moment of its append: nothing else was appended to that aggregate between
\* its LoadStream and its Record.
C19_DecideOnCurrentStream ==
  \A k \in 1..Len(origin) :
    \A n \in RowsOf(origin[k].call) :
      {Log[m].Sequence : m \in {j \in 1..(n - 1) :
                                   /\ Log[j].AggregateID = origin[k].agg
                                   /\ writer[j] # origin[k].call}}
        = Range(origin[k].folded)

(***************************************************************************)
(* Properties of replay from the stores.                                   *)
(***************************************************************************)
\* the rows a replay was to publish: those in the log when it was called
\* whose sequence is at least the one asked for, in log order
Committed(r) ==
  SelectSeq(SubSeq(Log, 1, r.at), LAMBDA row : row.Sequence >= r.seq)

\* the record handed to the publisher is the one of the row
RecordOf(rec, row) ==
  /\ rec.Sequence = row.Sequence
  /\ rec.AggregateID = row.AggregateID
  /\ rec.EventType = row.EventType
  /\ backend = "simple" => rec = row

\* C11: ReplayFrom(seq, publisher) publishes exactly the committed events
\* whose sequence is at least seq, each once, in ascending sequence order,
\* each with the replay flag true (TailFrom's callback takes no flag); it
\* leaves the log as it was; it stops at the first publisher or decode error
\* and returns it.
C11_ReplayFrom ==
  /\ [](\A k \in 1..Len(replays) :
          LET r == replays[k]
              exp == Committed(r)
              n == Len(r.published)
          IN  /\ n <= Len(exp)
              /\ \A m \in 1..n :
                   /\ RecordOf(r.published[m].rec, exp[m])
                   /\ backend = "file" => r.published[m].replay = "true"
              /\ \A l, m \in 1..n :
                   l < m => r.published[l].rec.Sequence < r.published[m].rec.Sequence
              /\ ~r.done => r.err = ""
              /\ (r.done /\ r.err = "") => n = Len(exp)
              /\ r.err = "callback error" => r.done /\ n >= 1
              /\ r.err = "recordedEvent" =>
                   /\ r.done
                   /\ n < Len(exp)
                   /\ UnmarshalEvent(registry, exp[n + 1].EventType,
                                     exp[n + 1].EventJSON).err # "")
  /\ [][\A p \in Callers :
          replaying'[p] # replaying[p] =>
            /\ events' = events
            /\ streams' = streams
            /\ nextSequence' = nextSequence
            /\ table' = table
            /\ sqlite_sequence' = sqlite_sequence
            /\ \A k \in 1..Len(replays) : replays[k].done => replays'[k] = replays[k]]_vars

\* over a log of two events, one replay from sequence 2 published the second
\* event alone and returned nil, and one replay from sequence 1 stopped at
\* the error of the publisher on the first event
C11_Witness ==
  \E j, k \in 1..Len(replays) :
    /\ replays[j].done /\ replays[j].err = ""
    /\ replays[j].seq = 2 /\ replays[j].at = 2
    /\ Len(replays[j].published) = 1
    /\ replays[j].published[1].rec.Sequence = 2
    /\ replays[k].done /\ replays[k].err = "callback error"
    /\ replays[k].seq = 1 /\ replays[k].at = 2
    /\ Len(replays[k].published) = 1

\* the live deliveries to the first publisher, in the order it received them
LiveDeliveries == SelectSeq(delivered, LAMBDA d : d.publisher = 1 /\ ~d.replay)

\* C13: two replays of the full log with no append in between hand the
\* publisher the same sequence of records, and that sequence is the one the
\* publisher received live for the same events.
C13_ReplayIdempotent ==
  \A j, k \in 1..Len(replays) :
    LET r == replays[j]
        q == replays[k]
        live == SelectSeq(LiveDeliveries, LAMBDA d : d.rec.Sequence <= r.at)
    IN  (/\ r.done /\ r.err = "" /\ r.seq = 1
         /\ q.done /\ q.err = "" /\ q.seq = 1
         /\ r.at = q.at) =>
          /\ r.published = q.published
          /\ (Len(live) = r.at /\ {live[n].rec.Sequence : n \in 1..Len(live)} = 1..r.at) =>
               \A n \in 1..r.at : live[n].rec = r.published[n].rec

(***************************************************************************)
(* Properties of Record on a store with several publishers.                *)
(***************************************************************************)
\* the Publish calls that Record call c made, in order
DeliveriesOf(c) == SelectSeq(delivered, LAMBDA d : d.call = c /\ ~d.replay)

\* C21: when a publisher returns an error during Record, Record returns an
\* error, every event of the batch stays in the log with its sequence
\* number, and the call makes no further delivery: the later events are not
\* handed to that publisher and no event is handed to a later publisher.
C21_PublisherErrorKeepsBatch ==
  \A n \in 1..Len(delivered) :
    (~delivered[n].ok /\ ~delivered[n].replay) =>
      LET c == delivered[n].call
          f == delivered[n].publisher
          D == DeliveriesOf(c)
      IN  /\ \A m \in (n + 1)..Len(delivered) : delivered[m].call # c
          /\ \A p \in Callers :
               callers[p].call = c =>
                 LET r == result[p]
                     L == Len(r.evs)
                     rows == RowsOf(c)
                 IN  /\ callers[p].pc = "idle"
                     /\ r.call = c
                     /\ r.err = "publish"
                     /\ Cardinality(rows) = L
                     /\ \E first \in 1..Len(Log) :
                          /\ rows = first..(first + L - 1)
                          /\ \A i \in 1..L :
                               LET row == Log[first + i - 1]
                               IN  /\ row.Sequence = first + i - 1
                                   /\ row.AggregateID = r.agg
                                   /\ backend = "simple" => row.Event = r.evs[i]
                                   /\ backend = "file" =>
                                        /\ row.EventType = TypeName(r.evs[i])
                                        /\ row.EventJSON = Marshal(r.evs[i])
                          /\ Len(D) = (f - 1) * L + r.k
                          /\ \A m \in 1..Len(D) :
                               /\ D[m].publisher = ((m - 1) \div L) + 1
                               /\ D[m].rec.Sequence = first + ((m - 1) % L)
                               /\ D[m].ok <=> m < Len(D)

\* on a store with two publishers, one Record of two events failed at the
\* first publisher on its first event, and another Record failed at the
\* second publisher; the rows of both are in the log
C21_Witness ==
  \E m, n \in 1..Len(delivered) :
    /\ publishers = 2
    /\ ~delivered[m].ok /\ delivered[m].publisher = 1
    /\ Cardinality(RowsOf(delivered[m].call)) = 2
    /\ Len(DeliveriesOf(delivered[m].call)) = 1
    /\ ~delivered[n].ok /\ delivered[n].publisher = 2
    /\ Cardinality(RowsOf(delivered[n].call)) > 0
    /\ \A p \in Callers : callers[p].pc = "idle" /\ result[p].err = "publish"

(***************************************************************************)
(* Properties of Handle on a decision without events and on an aggregate   *)
(* without events.                                                         *)
(***************************************************************************)
\* the aggregate has no event in the log
StreamEmpty(a) == \A n \in 1..Len(Log) : Log[n].AggregateID # a

\* C22: when HandleCommand returns zero events without an error, Handle
\* returns the store's no-events error, and the log, the aggregate's stream
\* and the next sequence number are unchanged and no publisher is invoked; a
\* command on an aggregate with an empty stream is not itself an error: its
\* load succeeds with no record, and HandleCommand is invoked on the fresh
\* aggregate with no Apply call before it.
C22_EmptyDecision ==
  /\ [](\A p \in Callers :
          (/\ handling[p].pc = "idle"
           /\ handleResult[p].call # 0
           /\ result[p].call = handleResult[p].call
           /\ Len(result[p].evs) = 0) =>
            /\ handleResult[p].err = "no events to append"
            /\ RowsOf(handleResult[p].call) = {}
            /\ DeliveriesOf(handleResult[p].call) = <<>>)
  /\ [][\A p \in Callers :
          /\ (/\ handling[p].pc = "record"
              /\ callers[p].pc = "lock"
              /\ Len(callers[p].evs) = 0
              /\ callers'[p] # callers[p]) =>
               /\ result'[p].err = "no events to append"
               /\ UNCHANGED <<events, streams, nextSequence, table, sqlite_sequence,
                              delivered, writer>>
          /\ (/\ handling[p].pc = "load"
              /\ StreamEmpty(handling[p].agg)
              /\ handling'[p] # handling[p]) =>
               /\ handling'[p].pc = "apply"
               /\ handling'[p].recs = <<>>
          /\ (/\ handling[p].pc = "apply"
              /\ handling[p].recs = <<>>
              /\ handling'[p] # handling[p]) =>
               /\ handling[p].folded = <<>>
               /\ handling[p].failed = ""
               /\ \/ handling'[p].decided
                  \/ /\ handling'[p].pc = "idle"
                     /\ handleResult'[p].decided]_vars

====
